---- MODULE Spec2Model ----
(***************************************************************************)
(* The load of doc/conf.py, the Sphinx configuration of HoloPlot's         *)
(* documentation.  The file is a straight-line program: a star import of   *)
(* nbsite.shared_conf followed by eleven statements that bind names in the *)
(* module namespace, extend the inherited html_static_path and merge eight *)
(* keys into the inherited html_context.  One action models one statement; *)
(* the only nondeterminism is what the star import binds.                  *)
(*                                                                         *)
(* Python values are tagged records so that a str, a tuple, a list and a   *)
(* dict are never confused: a str carries its sequence of characters, a    *)
(* tuple or list its sequence of members, a dict a function from keys to   *)
(* values.  Variable names and dict keys are only ever compared for        *)
(* equality and are kept as atomic strings.                                *)
(***************************************************************************)
EXTENDS Naturals, Sequences, FiniteSets, TLC

VARIABLES
    pc,        \* the statement the load executes next, "done", or "NameError"
    ns,        \* the module namespace of conf.py: name -> value
    imported,  \* what the star import of line 3 bound (as it was at line 3)
    defs,      \* per entity of the file: how often its defining statement ran
    reads      \* the entities of the file that a later statement has loaded

vars == <<pc, ns, imported, defs, reads>>

----------------------------------------------------------------------------
(* Python values *)

Str(s) == [t |-> "str", v |-> s]
Tuple(s) == [t |-> "tuple", v |-> s]
List(s) == [t |-> "list", v |-> s]
Dict(f) == [t |-> "dict", v |-> f]

\* the namespace, or the dict, with no entry
Empty == [k \in {} |-> Str(<<>>)]

\* str + str
Concat_swapped(a, b) == Str(b.v \o a.v)
Concat(a, b) == Str(a.v \o b.v)

\* list += list: the left list extended in place by the members of the right
ListExtend_prepend(l, m) == List(m.v \o l.v)
ListExtend(l, m) == List(l.v \o m.v)

\* dict.update(other): other's keys are added, and win where both have the key
DictUpdate_replace(d, u) == Dict(u.v)
DictUpdate(d, u) == Dict(u.v @@ d.v)

\* name = value in the namespace n
Bind(n, name, value) == (name :> value) @@ n

----------------------------------------------------------------------------
(* The literals of the file *)

\* line 5: u'HoloPlot'
project ==
    Str(<<"H","o","l","o","P","l","o","t">>)

\* line 6: u'Philipp Rudiger'
authors ==
    Str(<<"P","h","i","l","i","p","p"," ","R","u","d","i","g","e","r">>)

\* line 7: u'2017 '
copyright_prefix ==
    Str(<<"2","0","1","7"," ">>)

\* line 8
description ==
    Str(<<"A"," ","h","i","g","h","-","l","e","v","e","l"," ","p","l","o",
          "t","t","i","n","g"," ","A","P","I"," ","f","o","r"," ","t","h",
          "e"," ","P","y","D","a","t","a"," ","e","c","o","s","y","s","t",
          "e","m"," ","b","u","i","l","t"," ","o","n"," ","H","o","l","o",
          "V","i","e","w","s">>)

\* line 11: '0.0.1'
version_dev ==
    Str(<<"0",".","0",".","1","d","e","v">>)
version ==
    Str(<<"0",".","0",".","1">>)

\* line 12: '0.0.1'
release ==
    Str(<<"0",".","0",".","1">>)

\* line 14: ['_static']
static_entry ==
    Str(<<"_","s","t","a","t","i","c">>)

\* line 15: 'sphinx_ioam_theme'
html_theme ==
    Str(<<"s","p","h","i","n","x","_","i","o","a","m","_","t","h","e","m",
          "e">>)

\* lines 16-20: {'logo': 'pyviz-logo.png', 'favicon': 'favicon.ico'}
html_theme_options ==
    Dict(("logo" :> Str(<<"p","y","v","i","z","-","l","o","g","o",".","p",
                         "n","g">>))
      @@ ("favicon" :> Str(<<"f","a","v","i","c","o","n",".","i","c","o">>)))

\* lines 23-25: the three entries of _NAV
nav_getting_started ==
    Tuple(<<Str(<<"G","e","t","t","i","n","g"," ","S","t","a","r","t","e",
                  "d">>),
            Str(<<"g","e","t","t","i","n","g","_","s","t","a","r","t","e",
                  "d","/","i","n","d","e","x">>)>>)
nav_user_guide ==
    Tuple(<<Str(<<"U","s","e","r"," ","G","u","i","d","e">>),
            Str(<<"u","s","e","r","_","g","u","i","d","e","/","i","n","d",
                  "e","x">>)>>)
nav_about ==
    Tuple(<<Str(<<"A","b","o","u","t">>),
            Str(<<"a","b","o","u","t">>)>>)

\* lines 22-26
_NAV_two_entries ==
    Tuple(<<nav_getting_started, nav_user_guide>>)
_NAV ==
    Tuple(<<nav_getting_started, nav_user_guide, nav_about>>)

\* line 33
WEBSITE_SERVER ==
    Str(<<"h","t","t","p","s",":","/","/","p","y","v","i","z",".","g","i",
          "t","h","u","b",".","i","o","/","h","o","l","o","p","l","o","t">>)

\* lines 37-40
SOCIAL_missing_comma ==
    Tuple(<<Str(<<"G","i","t","t","e","r","/","/","g","i","t","t","e","r",
                  ".","i","m","/","i","o","a","m","/","h","o","l","o","v",
                  "i","e","w","s">>),
            Tuple(<<Str(<<"G","i","t","h","u","b">>),
                    Str(<<"/","/","g","i","t","h","u","b",".","c","o","m",
                          "/","p","y","v","i","z","/","h","o","l","o","p",
                          "l","o","t">>)>>)>>)
SOCIAL ==
    Tuple(<<Tuple(<<Str(<<"G","i","t","t","e","r">>),
                    Str(<<"/","/","g","i","t","t","e","r",".","i","m","/",
                          "i","o","a","m","/","h","o","l","o","v","i","e",
                          "w","s">>)>>),
            Tuple(<<Str(<<"G","i","t","h","u","b">>),
                    Str(<<"/","/","g","i","t","h","u","b",".","c","o","m",
                          "/","p","y","v","i","z","/","h","o","l","o","p",
                          "l","o","t">>)>>)>>)

\* lines 28-41: the dict literal handed to html_context.update, its values
\* looked up in the namespace n at line 28
ContextUpdate_author_as_project(n) ==
    Dict(("PROJECT" :> n["authors"])
      @@ ("DESCRIPTION" :> n["description"])
      @@ ("AUTHOR" :> n["authors"])
      @@ ("WEBSITE_SERVER" :> WEBSITE_SERVER)
      @@ ("VERSION" :> n["version"])
      @@ ("NAV" :> n["_NAV"])
      @@ ("LINKS" :> n["_NAV"])
      @@ ("SOCIAL" :> SOCIAL))
ContextUpdate_links_social(n) ==
    Dict(("PROJECT" :> n["project"])
      @@ ("DESCRIPTION" :> n["description"])
      @@ ("AUTHOR" :> n["authors"])
      @@ ("WEBSITE_SERVER" :> WEBSITE_SERVER)
      @@ ("VERSION" :> n["version"])
      @@ ("NAV" :> n["_NAV"])
      @@ ("LINKS" :> SOCIAL)
      @@ ("SOCIAL" :> SOCIAL))
ContextUpdate(n) ==
    Dict(("PROJECT" :> n["project"])
      @@ ("DESCRIPTION" :> n["description"])
      @@ ("AUTHOR" :> n["authors"])
      @@ ("WEBSITE_SERVER" :> WEBSITE_SERVER)
      @@ ("VERSION" :> n["version"])
      @@ ("NAV" :> n["_NAV"])
      @@ ("LINKS" :> n["_NAV"])
      @@ ("SOCIAL" :> SOCIAL))

----------------------------------------------------------------------------
(* What the star import of line 3 can bind.  nbsite.shared_conf is another *)
(* package; the file relies on it for html_static_path (a list) and        *)
(* html_context (a dict), and a star import binds whatever public names    *)
(* the module has, so each of these may be there or not, and a name the    *)
(* file assigns itself (version) may already be bound.                     *)

\* the longest html_static_path the shared defaults supply
MaxStaticPath == 2

SeqsUpTo(S, n) == UNION {[1..k -> S] : k \in 0..n}

DefaultPathEntries ==
    {Str(<<"_","s","h","a","r","e","d","_","s","t","a","t","i","c">>),
     static_entry}

DefaultStaticPaths ==
    {List(s) : s \in SeqsUpTo(DefaultPathEntries, MaxStaticPath)}

\* keys of the pre-populated html_context: two that the file writes too and
\* one that it does not
DefaultContextKeys == {"PROJECT", "LINKS", "css_includes"}

DefaultContextValues ==
    {Str(<<"n","b","s","i","t","e">>), List(<<Str(<<"s","i","t","e",".","c","s","s">>)>>)}

DefaultContexts ==
    {Dict(f) : f \in UNION {[K -> DefaultContextValues] :
                              K \in SUBSET DefaultContextKeys}}

\* the namespaces binding name to one of values, or not binding it
Optional(name, values) == {Empty} \cup {name :> x : x \in values}

SharedConfs ==
    {a @@ b @@ c :
        a \in Optional("html_static_path", DefaultStaticPaths),
        b \in Optional("html_context", DefaultContexts),
        c \in Optional("version", {Str(<<"0",".","0",".","0">>)})}

----------------------------------------------------------------------------
(* The load *)

\* the entities the file defines: the names it assigns, and the social-links
\* tuple, which has no name and is built inside the update of line 28
Entities ==
    {"project", "authors", "copyright", "description", "version", "release",
     "html_theme", "html_theme_options", "_NAV", "SOCIAL"}

Defined(name) == name \in DOMAIN ns

Init ==
    /\ pc = "import"
    /\ ns = Empty
    /\ imported = Empty
    /\ defs = [e \in Entities |-> 0]
    /\ reads = {}

\* line 3: from nbsite.shared_conf import *
Import ==
    /\ pc = "import"
    /\ \E conf \in SharedConfs :
          /\ ns' = conf @@ ns
          /\ imported' = conf
    /\ pc' = "project"
    /\ UNCHANGED <<defs, reads>>

\* name = value, a statement that loads the names in loaded
Assign(name, value, loaded, next) ==
    /\ ns' = Bind(ns, name, value)
    /\ defs' = [defs EXCEPT ![name] = @ + 1]
    /\ reads' = reads \cup loaded
    /\ pc' = next
    /\ UNCHANGED imported

\* line 5
Assign_project ==
    /\ pc = "project"
    /\ Assign("project", project, {}, "authors")

\* line 6
Assign_authors ==
    /\ pc = "authors"
    /\ Assign("authors", authors, {}, "copyright")

\* line 7: copyright = u'2017 ' + authors
Assign_copyright_rebinds_authors ==
    /\ pc = "copyright"
    /\ Assign("authors", Concat(copyright_prefix, ns["authors"]),
              {"authors"}, "description")
Assign_copyright ==
    /\ pc = "copyright"
    /\ Assign("copyright", Concat(copyright_prefix, ns["authors"]),
              {"authors"}, "description")

\* line 8
Assign_description ==
    /\ pc = "description"
    /\ Assign("description", description, {}, "version")

\* line 11
Assign_version ==
    /\ pc = "version"
    /\ Assign("version", version, {}, "release")

\* line 12
Assign_release ==
    /\ pc = "release"
    /\ Assign("release", release, {}, "html_static_path")

\* line 14: html_static_path += ['_static'], a NameError when the import did
\* not bind html_static_path
Extend_html_static_path_assigns ==
    /\ pc = "html_static_path"
    /\ ns' = Bind(ns, "html_static_path", List(<<static_entry>>))
    /\ pc' = "html_theme"
    /\ UNCHANGED <<imported, defs, reads>>
Extend_html_static_path ==
    /\ pc = "html_static_path"
    /\ \/ /\ Defined("html_static_path")
          /\ ns' = Bind(ns, "html_static_path",
                        ListExtend(ns["html_static_path"],
                                   List(<<static_entry>>)))
          /\ pc' = "html_theme"
       \/ /\ ~Defined("html_static_path")
          /\ ns' = ns
          /\ pc' = "NameError"
    /\ UNCHANGED <<imported, defs, reads>>

\* line 15
Assign_html_theme ==
    /\ pc = "html_theme"
    /\ Assign("html_theme", html_theme, {}, "html_theme_options")

\* lines 16-20
Assign_html_theme_options ==
    /\ pc = "html_theme_options"
    /\ Assign("html_theme_options", html_theme_options, {}, "_NAV")

\* lines 22-26
Assign_NAV ==
    /\ pc = "_NAV"
    /\ Assign("_NAV", _NAV, {}, "update")

\* the names the dict literal of lines 29-36 loads
UpdateLoads == {"project", "description", "authors", "version", "_NAV"}

\* lines 28-41: html_context.update({...}); html_context is looked up first,
\* a NameError when the import did not bind it
Update_html_context ==
    /\ pc = "update"
    /\ \/ /\ Defined("html_context")
          /\ ns' = Bind(ns, "html_context",
                        DictUpdate(ns["html_context"], ContextUpdate(ns)))
          /\ defs' = [defs EXCEPT !["SOCIAL"] = @ + 1]
          /\ reads' = reads \cup UpdateLoads
          /\ pc' = "done"
       \/ /\ ~Defined("html_context")
          /\ UNCHANGED <<ns, defs, reads>>
          /\ pc' = "NameError"
    /\ UNCHANGED imported

Next ==
    \/ Import
    \/ Assign_project
    \/ Assign_authors
    \/ Assign_copyright
    \/ Assign_description
    \/ Assign_version
    \/ Assign_release
    \/ Extend_html_static_path
    \/ Assign_html_theme
    \/ Assign_html_theme_options
    \/ Assign_NAV
    \/ Update_html_context

Spec == Init /\ [][Next]_vars

----------------------------------------------------------------------------
(* Properties of the load *)

\* the keys the update of lines 28-41 writes
FileKeys ==
    {"PROJECT", "DESCRIPTION", "AUTHOR", "WEBSITE_SERVER", "VERSION", "NAV",
     "LINKS", "SOCIAL"}

\* the names Sphinx reads from the module by convention
ExposedNames ==
    {"project", "authors", "copyright", "version", "release",
     "html_static_path", "html_theme", "html_theme_options", "html_context"}

Loaded == pc = "done"

\* html_context has been updated (line 28 has run)
Updated == defs["SOCIAL"] >= 1

\* the mapping held by html_context
Context == ns["html_context"].v

Digits == {"0", "1", "2", "3", "4", "5", "6", "7", "8", "9"}

\* x is a str of groups of digits separated by single dots
IsDottedNumeric(x) ==
    /\ x.t = "str"
    /\ Len(x.v) > 0
    /\ \A i \in 1..Len(x.v) : x.v[i] \in Digits \cup {"."}
    /\ x.v[1] \in Digits
    /\ x.v[Len(x.v)] \in Digits
    /\ \A i \in 1..(Len(x.v) - 1) : ~(x.v[i] = "." /\ x.v[i + 1] = ".")

\* x is a tuple of (label, target) pairs of non-empty strs
IsPairTable(x) ==
    /\ x.t = "tuple"
    /\ \A i \in 1..Len(x.v) :
          /\ x.v[i].t = "tuple"
          /\ Len(x.v[i].v) = 2
          /\ \A j \in 1..2 :
                /\ x.v[i].v[j].t = "str"
                /\ Len(x.v[i].v[j].v) > 0

\* C1: once the load is done, html_context has all eight keys of the update,
\* each with the value of its source: PROJECT = project, DESCRIPTION =
\* description, AUTHOR = authors, VERSION = version, NAV = LINKS = _NAV,
\* WEBSITE_SERVER and SOCIAL the literals of the update; PROJECT is
\* 'HoloPlot' and VERSION is '0.0.1', whatever the defaults held.
C1_ContextHoldsSources ==
    Loaded =>
        /\ Defined("html_context")
        /\ FileKeys \subseteq DOMAIN Context
        /\ Context["PROJECT"] = ns["project"]
        /\ Context["DESCRIPTION"] = ns["description"]
        /\ Context["AUTHOR"] = ns["authors"]
        /\ Context["VERSION"] = ns["version"]
        /\ Context["NAV"] = ns["_NAV"]
        /\ Context["LINKS"] = ns["_NAV"]
        /\ Context["WEBSITE_SERVER"] = WEBSITE_SERVER
        /\ Context["SOCIAL"] = SOCIAL
        /\ Context["PROJECT"] = Str(<<"H","o","l","o","P","l","o","t">>)
        /\ Context["VERSION"] = Str(<<"0",".","0",".","1">>)

\* the load is done and the defaults already held a PROJECT and a LINKS
C1_Witness ==
    /\ Loaded
    /\ {"PROJECT", "LINKS"} \subseteq DOMAIN imported["html_context"].v

\* the navigation table has n entries wherever it is held
NavHasEntries(n) ==
    /\ defs["_NAV"] >= 1 =>
          /\ ns["_NAV"].t = "tuple"
          /\ Len(ns["_NAV"].v) = n
    /\ Loaded =>
          /\ Context["NAV"] = ns["_NAV"]
          /\ Context["LINKS"] = ns["_NAV"]
          /\ Len(Context["NAV"].v) = n
          /\ Len(Context["LINKS"].v) = n

\* C2 as stated: the navigation table has two entries, and that two-entry
\* sequence is what NAV and LINKS hold after the load.
C2_TwoEntries == NavHasEntries(2)

\* C2, amended: the navigation table has three entries (Getting Started, User
\* Guide, About), and that three-entry sequence is what NAV and LINKS hold
\* after the load.
C2_ThreeEntries ==
    /\ NavHasEntries(3)
    /\ defs["_NAV"] >= 1 =>
          ns["_NAV"].v[3] = Tuple(<<Str(<<"A","b","o","u","t">>),
                                   Str(<<"a","b","o","u","t">>)>>)

\* the load is done with the navigation table in both slots
C2_Witness ==
    /\ Loaded
    /\ Len(Context["NAV"].v) = 3
    /\ Len(Context["LINKS"].v) = 3

\* C3: from the update on, NAV and LINKS hold the same tuple: the same
\* entries in the same order.
C3_NavEqualsLinks ==
    Updated =>
        /\ {"NAV", "LINKS"} \subseteq DOMAIN Context
        /\ Context["NAV"].t = "tuple"
        /\ Context["LINKS"].t = "tuple"
        /\ Len(Context["NAV"].v) = Len(Context["LINKS"].v)
        /\ \A i \in 1..Len(Context["NAV"].v) :
              Context["NAV"].v[i] = Context["LINKS"].v[i]

\* the update has run on defaults that held a LINKS of their own and no NAV
C3_Witness ==
    /\ Updated
    /\ "LINKS" \in DOMAIN imported["html_context"].v
    /\ "NAV" \notin DOMAIN imported["html_context"].v
    /\ Len(Context["NAV"].v) > 0

\* C4: every entry of the navigation tuple (as _NAV, NAV and LINKS) and of
\* the social-links tuple is a pair of two non-empty strs.
C4_PairsOfNonEmptyStrings ==
    /\ defs["_NAV"] >= 1 => IsPairTable(ns["_NAV"])
    /\ Updated =>
          /\ IsPairTable(Context["NAV"])
          /\ IsPairTable(Context["LINKS"])
          /\ IsPairTable(Context["SOCIAL"])

\* the update has run and both tables have entries
C4_Witness ==
    /\ Updated
    /\ Len(Context["NAV"].v) = 3
    /\ Len(Context["SOCIAL"].v) = 2

\* C5: after the load, version and release are non-empty strs of groups of
\* digits separated by single dots.
C5_DottedNumeric ==
    Loaded =>
        /\ IsDottedNumeric(ns["version"])
        /\ IsDottedNumeric(ns["release"])

\* the load is done, over a version that the defaults had bound before
C5_Witness ==
    /\ Loaded
    /\ "version" \in DOMAIN imported
    /\ Len(ns["version"].v) = 5
    /\ Len(ns["release"].v) = 5

\* C6: when the load is done, the nine names Sphinx reads are bound, and
\* html_static_path and html_context are among those the import bound: the
\* load does not get to its end without them.
C6_ExposedNamesDefined ==
    Loaded =>
        /\ ExposedNames \subseteq DOMAIN ns
        /\ {"html_static_path", "html_context"} \subseteq DOMAIN imported

\* the load is done
C6_Witness ==
    /\ Loaded
    /\ ExposedNames \subseteq DOMAIN ns

\* the value of entity e, once its defining statement has run
EntityValue(e) == IF e = "SOCIAL" THEN Context["SOCIAL"] ELSE ns[e]

\* in every step, each entity's defining statement has run at most once (and
\* once when the load is done), and an entity that was defined keeps its value
DefinedOnceAndKept ==
    \A e \in Entities :
        /\ defs'[e] <= 1
        /\ Loaded' => defs'[e] = 1
        /\ defs[e] >= 1 => EntityValue(e)' = EntityValue(e)

\* C7 as stated: each entity is defined exactly once, keeps its value until
\* the load ends, and is never read back by the file.
C7_NeverReadBack ==
    [][DefinedOnceAndKept /\ reads' = {}]_vars

\* C7, amended: each entity is defined exactly once and keeps its value until
\* the load ends; the file reads back authors (line 7) and, in the update,
\* project, description, authors, version and _NAV, and reads back nothing
\* else: not copyright, release, the theme options or the social links.
C7_DefinedOnceReadByUpdate ==
    [][/\ DefinedOnceAndKept
       /\ reads' \subseteq {"project", "description", "authors", "version",
                            "_NAV"}
       /\ pc' \in {"description", "version", "release", "html_static_path",
                   "html_theme", "html_theme_options", "_NAV", "update"}
             => reads' = {"authors"}
       /\ Loaded' => reads' = {"project", "description", "authors",
                               "version", "_NAV"}]_vars

\* the load is done, over a version that the defaults had bound before, with
\* every entity defined once
C7_Witness ==
    /\ Loaded
    /\ "version" \in DOMAIN imported
    /\ "authors" \in reads
    /\ \A e \in Entities : defs[e] = 1

\* C8: the update merges: html_context is as imported until the update, and
\* after it every key of the defaults other than the eight keeps its value,
\* the eight hold the values of the file, also where the defaults had the key,
\* and there is no other key.
C8_MergeWithOverride ==
    /\ (Defined("html_context") /\ ~Updated) =>
          ns["html_context"] = imported["html_context"]
    /\ Updated =>
          /\ ns["html_context"].t = "dict"
          /\ DOMAIN Context = DOMAIN imported["html_context"].v \cup FileKeys
          /\ \A k \in DOMAIN imported["html_context"].v \ FileKeys :
                Context[k] = imported["html_context"].v[k]
          /\ \A k \in FileKeys : Context[k] = ContextUpdate(ns).v[k]

\* the update has run on defaults holding a key of their own and one of the eight
C8_Witness ==
    /\ Updated
    /\ {"css_includes", "PROJECT"} \subseteq DOMAIN imported["html_context"].v
    /\ Context["PROJECT"] # imported["html_context"].v["PROJECT"]

\* C9: after the load html_static_path is the imported list, its n entries
\* unchanged and in their order, followed by '_static'.
C9_StaticPathExtended ==
    Loaded =>
        LET old == imported["html_static_path"].v
            new == ns["html_static_path"]
        IN  /\ new.t = "list"
            /\ Len(new.v) = Len(old) + 1
            /\ \A i \in 1..Len(old) : new.v[i] = old[i]
            /\ new.v[Len(old) + 1] = Str(<<"_","s","t","a","t","i","c">>)

\* the load is done on a default path of two different entries
C9_Witness ==
    /\ Loaded
    /\ Len(imported["html_static_path"].v) >= 2
    /\ imported["html_static_path"].v[1] # imported["html_static_path"].v[2]
    /\ Len(ns["html_static_path"].v) >= 3

\* C10: after the load copyright is '2017 ' followed by authors, and that
\* authors is the AUTHOR of html_context.
C10_CopyrightFromAuthors ==
    Loaded =>
        /\ ns["copyright"] = Str(<<"2","0","1","7"," ">> \o ns["authors"].v)
        /\ Context["AUTHOR"] = ns["authors"]
        /\ Len(ns["authors"].v) > 0

\* the load is done and copyright is longer than its prefix
C10_Witness ==
    /\ Loaded
    /\ Len(ns["copyright"].v) = 5 + Len(ns["authors"].v)
    /\ Len(ns["authors"].v) > 0

====
